---- MODULE Spec2Model ----
(***************************************************************************)
(* Model of the cetra loader (src/cetra/parser.py) and of the pydantic     *)
(* entity model (src/cetra/models.py).                                     *)
(*                                                                         *)
(* A load call is a sequential program; the model follows its position     *)
(* (pc) through path resolution, the scoped open / yaml.safe_load, the     *)
(* exception handlers, the emptiness / mapping / section checks and the    *)
(* construction of the Config.                                             *)
(*                                                                         *)
(* Parsed YAML values and constructed entities are tagged records (field   *)
(* t).  Text is a sequence of tokens, so that str.join, str() and          *)
(* substring search are computed rather than assumed.                      *)
(***************************************************************************)
EXTENDS Integers, Sequences, FiniteSets, TLC

VARIABLES loader, filepath, fs, content, pc, fileOpen, exc, yaml_data,
          section_data, result, trace

vars == <<loader, filepath, fs, content, pc, fileOpen, exc, yaml_data,
          section_data, result, trace>>

\* ------------------------------------------------------------------ bounds
\* longest `flow` / `steps` sequence in an input document
MaxSteps == 2

\* ------------------------------------------------------- parsed YAML values
Null == [t |-> "null"]
S(s) == [t |-> "str", s |-> s]
I(i) == [t |-> "int", i |-> i]
\* a float, held in tenths (7 is 0.7)
F(x) == [t |-> "float", x |-> x]
B(b) == [t |-> "bool", b |-> b]
L(items) == [t |-> "seq", items |-> items]
\* a mapping, from its <<key, value>> entries in document order: keys is
\* the order of the keys (a dict keeps insertion order), m the lookup
M(pairs) ==
  [t |-> "map",
   keys |-> [j \in 1..Len(pairs) |-> pairs[j][1]],
   m |-> [k \in {pairs[j][1] : j \in 1..Len(pairs)} |->
            pairs[CHOOSE j \in 1..Len(pairs) : pairs[j][1] = k][2]]]

\* type(value).__name__ of a parsed value
TypeName(v) ==
  CASE v.t = "null" -> "NoneType"
    [] v.t = "str" -> "str"
    [] v.t = "int" -> "int"
    [] v.t = "float" -> "float"
    [] v.t = "bool" -> "bool"
    [] v.t = "seq" -> "list"
    [] v.t = "map" -> "dict"

\* dict.get(key): the value, or None when the key is absent
Get(d, key) == IF key \in DOMAIN d.m THEN d.m[key] ELSE Null

\* ------------------------------------------------------------- text helpers
RECURSIVE ConcatAll(_)
ConcatAll(ss) == IF ss = <<>> THEN <<>> ELSE Head(ss) \o ConcatAll(Tail(ss))

\* sep.join(parts), as a token sequence
RECURSIVE Join(_, _)
Join(sep, parts) ==
  IF parts = <<>> THEN <<>>
  ELSE IF Len(parts) = 1 THEN <<parts[1]>>
  ELSE <<parts[1], sep>> \o Join(sep, Tail(parts))

DigitStr == <<"0", "1", "2", "3", "4", "5", "6", "7", "8", "9">>

\* str() of one element of a pydantic error location: a field name or
\* mapping key is itself, a sequence index is its decimal form
StrLoc(item) == IF item.k = "index" THEN DigitStr[item.i + 1] ELSE item.s

Name(s) == [k |-> "name", s |-> s]
Index(i) == [k |-> "index", i |-> i]

\* needle occurs in text as a contiguous run of tokens
Contains(text, needle) ==
  \E i \in 0..(Len(text) - Len(needle)) :
    \A j \in 1..Len(needle) : text[i + j] = needle[j]

StartsWith(text, prefix) ==
  /\ Len(prefix) <= Len(text)
  /\ \A j \in 1..Len(prefix) : text[j] = prefix[j]

\* the words of the model's texts that contain capitals and every way of
\* writing a boolean word with capitals, with their lower-case forms
Capitalised ==
  <<"Workflow", "Flow", "Path", "Permission", "Invalid", "Error", "YAML",
    "Input", "Field", "List", "String", "File", "Is", "No", "NoneType",
    "ToolParameter", "ToolOutput", "ToolCall", "FlowAction", "FlowStep",
    "FlowConfig", "AgentConfig", "WorkflowStep", "WorkflowConfig",
    "cetra.models.WorkflowConfig()", "[Errno 2]", "[Errno 13]",
    "[Errno 21]", "[Errno 36]", "oN", "On", "ON", "T", "truE", "trUe",
    "trUE", "tRue", "tRuE", "tRUe", "tRUE", "True", "TruE", "TrUe",
    "TrUE", "TRue", "TRuE", "TRUe", "TRUE", "Y", "yeS", "yEs", "yES",
    "Yes", "YeS", "YEs", "YES", "ofF", "oFf", "oFF", "Off", "OfF", "OFf",
    "OFF", "F", "falsE", "falSe", "falSE", "faLse", "faLsE", "faLSe",
    "faLSE", "fAlse", "fAlsE", "fAlSe", "fAlSE", "fALse", "fALsE",
    "fALSe", "fALSE", "False", "FalsE", "FalSe", "FalSE", "FaLse",
    "FaLsE", "FaLSe", "FaLSE", "FAlse", "FAlsE", "FAlSe", "FAlSE",
    "FALse", "FALsE", "FALSe", "FALSE", "N", "nO", "NO">>
Lowered ==
  <<"workflow", "flow", "path", "permission", "invalid", "error", "yaml",
    "input", "field", "list", "string", "file", "is", "no", "nonetype",
    "toolparameter", "tooloutput", "toolcall", "flowaction", "flowstep",
    "flowconfig", "agentconfig", "workflowstep", "workflowconfig",
    "cetra.models.workflowconfig()", "[errno 2]", "[errno 13]",
    "[errno 21]", "[errno 36]", "on", "on", "on", "t", "true", "true",
    "true", "true", "true", "true", "true", "true", "true", "true",
    "true", "true", "true", "true", "true", "y", "yes", "yes", "yes",
    "yes", "yes", "yes", "yes", "off", "off", "off", "off", "off", "off",
    "off", "f", "false", "false", "false", "false", "false", "false",
    "false", "false", "false", "false", "false", "false", "false",
    "false", "false", "false", "false", "false", "false", "false",
    "false", "false", "false", "false", "false", "false", "false",
    "false", "false", "false", "false", "n", "no", "no">>

\* str.lower() of one word: a word of the table becomes its lower-case
\* form, every other word of the model is lower case already
LowerWord(w) ==
  IF \E j \in 1..Len(Capitalised) : Capitalised[j] = w
  THEN Lowered[CHOOSE j \in 1..Len(Capitalised) : Capitalised[j] = w]
  ELSE w

\* str.lower() of a text, word by word
Lower(text) == [j \in 1..Len(text) |-> LowerWord(text[j])]

\* ---------------------------------------------------- pydantic validation
\* A validator returns the validated value or the list of errors found.
Ok(v) == [ok |-> TRUE, val |-> v, errs |-> <<>>]
Err(es) == [ok |-> FALSE, val |-> Null, errs |-> es]
E(loc, msg) == [loc |-> loc, msg |-> msg]

\* the texts of pydantic's errors
MsgMissing == <<"Field", "required">>
MsgStringType == <<"Input", "should", "be", "a", "valid", "string">>
MsgBoolType == <<"Input", "should", "be", "a", "valid", "boolean">>
MsgBoolParsing ==
  <<"Input", "should", "be", "a", "valid", "boolean", ",", "unable", "to",
    "interpret", "input">>
MsgDictType == <<"Input", "should", "be", "a", "valid", "dictionary">>
MsgListType == <<"Input", "should", "be", "a", "valid", "list">>
MsgModelType(cls) ==
  <<"Input", "should", "be", "a", "valid", "dictionary", "or", "instance",
    "of", cls>>

\* the keys of a mapping in document order, the order in which the items
\* of a Dict are validated and their errors reported
KeysOf(v) == v.keys

\* str field
ValidateStr(v, loc) ==
  IF v.t = "str" THEN Ok(v)
  ELSE Err(<<E(loc, MsgStringType)>>)

TrueWords == {"1", "on", "t", "true", "y", "yes"}
FalseWords == {"0", "off", "f", "false", "n", "no"}

\* bool field (lax mode): 0 and 1 and, in any case, the usual words are
\* converted; another str or whole number cannot be interpreted, any other
\* value is not a boolean
ValidateBool(v, loc) ==
  CASE v.t = "bool" -> Ok(v)
    [] v.t = "int" /\ v.i \in {0, 1} -> Ok(B(v.i = 1))
    [] v.t = "int" /\ v.i \notin {0, 1} -> Err(<<E(loc, MsgBoolParsing)>>)
    [] v.t = "float" /\ v.x \in {0, 10} -> Ok(B(v.x = 10))
    [] v.t = "float" /\ v.x \notin {0, 10} /\ v.x % 10 = 0 ->
         Err(<<E(loc, MsgBoolParsing)>>)
    [] v.t = "str" /\ LowerWord(v.s) \in TrueWords -> Ok(B(TRUE))
    [] v.t = "str" /\ LowerWord(v.s) \in FalseWords -> Ok(B(FALSE))
    [] v.t = "str" /\ LowerWord(v.s) \notin (TrueWords \cup FalseWords) ->
         Err(<<E(loc, MsgBoolParsing)>>)
    [] OTHER -> Err(<<E(loc, MsgBoolType)>>)

\* Optional[X]: None is accepted as it is
ValidateOptional(V(_, _), v, loc) ==
  IF v.t = "null" THEN Ok(Null) ELSE V(v, loc)

\* one field of a model: Field(...) is required, Field(default) is not
ValidateField(V(_, _), m, name, required, default, loc) ==
  IF name \in DOMAIN m THEN V(m[name], Append(loc, Name(name)))
  ELSE IF required THEN Err(<<E(Append(loc, Name(name)), MsgMissing)>>)
  ELSE Ok(default)

\* the outcome of a mapping or sequence from the outcomes rs of its items,
\* taken in the order keys: every error, or the container of the values
Collect(tag, keys, rs) ==
  LET errs == ConcatAll([j \in 1..Len(keys) |-> rs[keys[j]].errs])
  IN IF errs = <<>>
     THEN Ok(IF tag = "dict"
             THEN [t |-> "dict", keys |-> keys,
                   m |-> [k \in DOMAIN rs |-> rs[k].val]]
             ELSE [t |-> "list", items |-> [k \in DOMAIN rs |-> rs[k].val]])
     ELSE Err(errs)

\* Dict[str, X]
ValidateDict(V(_, _), v, loc) ==
  IF v.t # "map" THEN Err(<<E(loc, MsgDictType)>>)
  ELSE Collect("dict", KeysOf(v),
               [k \in DOMAIN v.m |-> V(v.m[k], Append(loc, Name(k)))])

\* List[X]
ValidateList(V(_, _), v, loc) ==
  IF v.t # "seq" THEN Err(<<E(loc, MsgListType)>>)
  ELSE Collect("list", [j \in 1..Len(v.items) |-> j],
               [j \in 1..Len(v.items) |->
                  V(v.items[j], Append(loc, Index(j - 1)))])

\* a model is built from a mapping; the error names the class
ModelTypeError(cls, loc) == Err(<<E(loc, MsgModelType(cls))>>)

\* the outcome of a model from the outcomes rs of its fields: every error
\* in field order, or the instance
Model(rs, instance) ==
  LET errs == ConcatAll([j \in 1..Len(rs) |-> rs[j].errs])
  IN IF errs = <<>> THEN Ok(instance) ELSE Err(errs)

ToolParameter(ty, de, rq) ==
  Model(<<ty, de, rq>>,
        [t |-> "ToolParameter", type |-> ty.val, description |-> de.val,
         required |-> rq.val])

\* class ToolParameter
ValidateToolParameter(v, loc) ==
  IF v.t # "map" THEN ModelTypeError("ToolParameter", loc)
  ELSE ToolParameter(
         ValidateField(ValidateStr, v.m, "type", TRUE, Null, loc),
         ValidateField(ValidateStr, v.m, "description", TRUE, Null, loc),
         ValidateField(ValidateBool, v.m, "required", FALSE, B(FALSE), loc))

ToolOutput(ty, de) ==
  Model(<<ty, de>>,
        [t |-> "ToolOutput", type |-> ty.val, description |-> de.val])

\* class ToolOutput
ValidateToolOutput(v, loc) ==
  IF v.t # "map" THEN ModelTypeError("ToolOutput", loc)
  ELSE ToolOutput(
         ValidateField(ValidateStr, v.m, "type", TRUE, Null, loc),
         ValidateField(ValidateStr, v.m, "description", TRUE, Null, loc))

ValidateParameters(v, loc) == ValidateDict(ValidateToolParameter, v, loc)
ValidateOutputs(v, loc) == ValidateDict(ValidateToolOutput, v, loc)
ValidateOptOutputs(v, loc) == ValidateOptional(ValidateOutputs, v, loc)
ValidateOptStr(v, loc) == ValidateOptional(ValidateStr, v, loc)

ToolCall(na, de, pa, ou) ==
  Model(<<na, de, pa, ou>>,
        [t |-> "ToolCall", name |-> na.val, description |-> de.val,
         parameters |-> pa.val, output |-> ou.val])

\* class ToolCall
ValidateToolCall(v, loc) ==
  IF v.t # "map" THEN ModelTypeError("ToolCall", loc)
  ELSE ToolCall(
         ValidateField(ValidateStr, v.m, "name", TRUE, Null, loc),
         ValidateField(ValidateStr, v.m, "description", TRUE, Null, loc),
         ValidateField(ValidateParameters, v.m, "parameters", TRUE, Null, loc),
         ValidateField(ValidateOptOutputs, v.m, "output", FALSE, Null, loc))

FlowAction(co, ns) ==
  Model(<<co, ns>>,
        [t |-> "FlowAction", condition |-> co.val, next_step |-> ns.val])

\* class FlowAction
ValidateFlowAction(v, loc) ==
  IF v.t # "map" THEN ModelTypeError("FlowAction", loc)
  ELSE FlowAction(
         ValidateField(ValidateStr, v.m, "condition", TRUE, Null, loc),
         ValidateField(ValidateOptStr, v.m, "next_step", FALSE, Null, loc))

ValidateOptToolCall(v, loc) == ValidateOptional(ValidateToolCall, v, loc)
ValidateActions(v, loc) == ValidateList(ValidateFlowAction, v, loc)
ValidateOptActions(v, loc) == ValidateOptional(ValidateActions, v, loc)

FlowStep(id, pr, tc, re, ac, ns) ==
  Model(<<id, pr, tc, re, ac, ns>>,
        [t |-> "FlowStep", id |-> id.val, prompt |-> pr.val,
         tool_call |-> tc.val, response |-> re.val, actions |-> ac.val,
         next_step |-> ns.val])

\* mutant: id declared Optional[str] = None
ValidateFlowStep_m(v, loc) ==
  IF v.t # "map" THEN ModelTypeError("FlowStep", loc)
  ELSE FlowStep(
         ValidateField(ValidateOptStr, v.m, "id", FALSE, Null, loc),
         ValidateField(ValidateOptStr, v.m, "prompt", FALSE, Null, loc),
         ValidateField(ValidateOptToolCall, v.m, "tool_call", FALSE, Null,
                       loc),
         ValidateField(ValidateOptStr, v.m, "response", FALSE, Null, loc),
         ValidateField(ValidateOptActions, v.m, "actions", FALSE, Null, loc),
         ValidateField(ValidateOptStr, v.m, "next_step", FALSE, Null, loc))

\* class FlowStep
ValidateFlowStep(v, loc) ==
  IF v.t # "map" THEN ModelTypeError("FlowStep", loc)
  ELSE FlowStep(
         ValidateField(ValidateStr, v.m, "id", TRUE, Null, loc),
         ValidateField(ValidateOptStr, v.m, "prompt", FALSE, Null, loc),
         ValidateField(ValidateOptToolCall, v.m, "tool_call", FALSE, Null,
                       loc),
         ValidateField(ValidateOptStr, v.m, "response", FALSE, Null, loc),
         ValidateField(ValidateOptActions, v.m, "actions", FALSE, Null, loc),
         ValidateField(ValidateOptStr, v.m, "next_step", FALSE, Null, loc))

\* mutant: the list declared with a minimum length of one
ValidateFlow_m(v, loc) ==
  IF v.t = "seq" /\ v.items = <<>>
  THEN Err(<<E(loc, <<"List", "should", "have", "at", "least", "1", "item">>)>>)
  ELSE ValidateList(ValidateFlowStep, v, loc)

\* flow: List[FlowStep]
ValidateFlow(v, loc) == ValidateList(ValidateFlowStep, v, loc)

FlowConfig(fl) == Model(<<fl>>, [t |-> "FlowConfig", flow |-> fl.val])

\* class FlowConfig, constructed from keyword arguments kw
ValidateFlowConfig(kw) ==
  FlowConfig(ValidateField(ValidateFlow, kw, "flow", TRUE, Null, <<>>))

\* ------------------------------------------- workflow entities (section 3)
MsgTooShort ==
  <<"String", "should", "have", "at", "least", "1", "character">>

\* non-empty text: a str of at least one character
ValidateNonEmptyStr(v, loc) ==
  IF v.t # "str" THEN Err(<<E(loc, MsgStringType)>>)
  ELSE IF v.s = "" THEN Err(<<E(loc, MsgTooShort)>>)
  ELSE Ok(v)

MsgTooCold ==
  <<"Input", "should", "be", "greater", "than", "or", "equal", "to", "0">>
MsgTooHot ==
  <<"Input", "should", "be", "less", "than", "or", "equal", "to", "2">>

\* float field with bounds 0.0 and 2.0 (in tenths); an int is converted
ValidateTemperature(v, loc) ==
  CASE v.t \notin {"int", "float"} ->
         Err(<<E(loc, <<"Input", "should", "be", "a", "valid", "number">>)>>)
    [] v.t = "int" /\ v.i < 0 ->
         Err(<<E(loc, MsgTooCold)>>)
    [] v.t = "int" /\ v.i > 2 ->
         Err(<<E(loc, MsgTooHot)>>)
    [] v.t = "int" /\ v.i >= 0 /\ v.i <= 2 -> Ok(F(10 * v.i))
    [] v.t = "float" /\ v.x < 0 ->
         Err(<<E(loc, MsgTooCold)>>)
    [] v.t = "float" /\ v.x > 20 ->
         Err(<<E(loc, MsgTooHot)>>)
    [] OTHER -> Ok(v)

AgentConfig(ins, te) ==
  Model(<<ins, te>>,
        [t |-> "AgentConfig", instructions |-> ins.val,
         temperature |-> te.val])

\* AgentConfig: instructions (non-empty text), temperature (default 0.7)
ValidateAgentConfig(v, loc) ==
  IF v.t # "map" THEN ModelTypeError("AgentConfig", loc)
  ELSE AgentConfig(
         ValidateField(ValidateNonEmptyStr, v.m, "instructions", TRUE, Null,
                       loc),
         ValidateField(ValidateTemperature, v.m, "temperature", FALSE, F(7),
                       loc))

WorkflowStep(na, ag, ak) ==
  Model(<<na, ag, ak>>,
        [t |-> "WorkflowStep", name |-> na.val, agent |-> ag.val,
         ask |-> ak.val])

\* WorkflowStep: name, agent, ask, each non-empty text
ValidateWorkflowStep(v, loc) ==
  IF v.t # "map" THEN ModelTypeError("WorkflowStep", loc)
  ELSE WorkflowStep(
         ValidateField(ValidateNonEmptyStr, v.m, "name", TRUE, Null, loc),
         ValidateField(ValidateNonEmptyStr, v.m, "agent", TRUE, Null, loc),
         ValidateField(ValidateNonEmptyStr, v.m, "ask", TRUE, Null, loc))

ValidateAgents(v, loc) == ValidateDict(ValidateAgentConfig, v, loc)
ValidateSteps(v, loc) == ValidateList(ValidateWorkflowStep, v, loc)

WorkflowConfig(na, de, ag, st) ==
  Model(<<na, de, ag, st>>,
        [t |-> "WorkflowConfig", name |-> na.val, description |-> de.val,
         agents |-> ag.val, steps |-> st.val])

\* WorkflowConfig (name non-empty text, description optional, agents,
\* steps), constructed from keyword arguments kw
ValidateWorkflowConfig(kw) ==
  WorkflowConfig(
    ValidateField(ValidateNonEmptyStr, kw, "name", TRUE, Null, <<>>),
    ValidateField(ValidateOptStr, kw, "description", FALSE, Null, <<>>),
    ValidateField(ValidateAgents, kw, "agents", TRUE, Null, <<>>),
    ValidateField(ValidateSteps, kw, "steps", TRUE, Null, <<>>))

\* ------------------------------------------------------- exception classes
\* the direct base class of every exception class that occurs
Base(cls) ==
  CASE cls = "WorkflowFileError" -> "WorkflowParserError"
    [] cls = "WorkflowValidationError" -> "WorkflowParserError"
    [] cls = "WorkflowParserError" -> "Exception"
    [] cls = "FlowFileError" -> "FlowParserError"
    [] cls = "FlowValidationError" -> "FlowParserError"
    [] cls = "FlowParserError" -> "Exception"
    [] cls = "FileNotFoundError" -> "OSError"
    [] cls = "PermissionError" -> "OSError"
    [] cls = "IsADirectoryError" -> "OSError"
    [] cls = "OSError" -> "Exception"
    [] cls = "UnicodeDecodeError" -> "ValueError"
    [] cls = "ValidationError" -> "ValueError"
    [] cls = "ValueError" -> "Exception"
    [] cls = "TypeError" -> "Exception"
    [] cls = "YAMLError" -> "Exception"
    [] cls = "ScannerError" -> "YAMLError"
    [] OTHER -> "BaseException"

\* issubclass(cls, target)
RECURSIVE IsSubclass(_, _)
IsSubclass(cls, target) ==
  IF cls = target THEN TRUE
  ELSE IF cls = "BaseException" THEN FALSE
  ELSE IsSubclass(Base(cls), target)

\* the workflow loader: section key, wording and exception classes
WorkflowLoader ==
  [key |-> "workflow", noun |-> "Workflow", root |-> "WorkflowParserError",
   fileError |-> "WorkflowFileError",
   validationError |-> "WorkflowValidationError"]

\* the flow loader, the same loader for `flow` documents
FlowLoader ==
  [key |-> "flow", noun |-> "Flow", root |-> "FlowParserError",
   fileError |-> "FlowFileError", validationError |-> "FlowValidationError"]

LoaderOf(ld) == IF ld = "workflow" THEN WorkflowLoader ELSE FlowLoader

ParserError(ld) == LoaderOf(ld).root
FileError(ld) == LoaderOf(ld).fileError
ValidationErrorOf(ld) == LoaderOf(ld).validationError
Noun(ld) == LoaderOf(ld).noun
SectionKey(ld) == LoaderOf(ld).key

\* mutant: the wording without "not found"
MsgNotFound_m(ld, p) == <<Noun(ld), "file", "missing", ":", p>>
\* ------------------------------------------------------------ the messages
MsgNotFound(ld, p) == <<Noun(ld), "file", "not", "found", ":", p>>
MsgNotAFile(ld, p) == <<"Path", "is", "not", "a", "file", ":", p>>
MsgPermission(ld, p) == <<"Permission", "denied", "reading", "file", ":", p>>
MsgInvalidYaml(ld, p, e) ==
  <<"Invalid", "YAML", "format", "in", p, ":">> \o e
MsgReadError(ld, p, e) ==
  <<"Error", "reading", LowerWord(Noun(ld)), "file", p, ":">> \o e
MsgEmpty(ld, p) == <<Noun(ld), "file", "is", "empty", ":", p>>
MsgNotMapping(ld, p, v) ==
  <<Noun(ld), "file", "must", "contain", "a", "YAML", "object", ",", "got",
    TypeName(v), ":", p>>
MsgNoSection(ld, p) ==
  <<Noun(ld), "file", "must", "contain", "a", "'", SectionKey(ld), "'",
    "section", ":", p>>
MsgValidateError(ld, p, e) ==
  <<"Error", "validating", LowerWord(Noun(ld)), "in", p, ":">> \o e

\* '.'.join(str(loc) for loc in error['loc'])
FieldPath(loc) == Join(".", [j \in 1..Len(loc) |-> StrLoc(loc[j])])

\* f"  - {field}: {msg}"
DetailLine(err) == <<"  - ">> \o FieldPath(err.loc) \o <<": ">> \o err.msg

\* the lines of error_details, joined by newlines
RECURSIVE JoinLines(_)
JoinLines(lines) ==
  IF lines = <<>> THEN <<>>
  ELSE IF Len(lines) = 1 THEN lines[1]
  ELSE lines[1] \o <<"\n">> \o JoinLines(Tail(lines))

\* mutant: only the first error is reported
MsgValidationFailed_m(ld, p, errs) ==
  <<Noun(ld), "validation", "failed", "in", p, ":", "\n">>
  \o DetailLine(errs[1])

MsgValidationFailed(ld, p, errs) ==
  <<Noun(ld), "validation", "failed", "in", p, ":", "\n">>
  \o JoinLines([j \in 1..Len(errs) |-> DetailLine(errs[j])])

\* --------------------------------------------------------------- the inputs
RECURSIVE SeqsUpTo(_, _)
\* the sequences over set of length at most n
SeqsUpTo(set, n) ==
  IF n = 0 THEN {<<>>}
  ELSE LET shorter == SeqsUpTo(set, n - 1)
       IN shorter \cup {Append(q, x) : q \in shorter, x \in set}

ParamOk == M(<< <<"type", S("string")>>, <<"description", S("d")>> >>)
ParamReq == M(<< <<"description", S("d")>>, <<"type", S("string")>>,
                 <<"required", S("Yes")>> >>)
ParamNumType == M(<< <<"type", I(1)>>, <<"description", S("d")>> >>)
ParamNoDesc == M(<< <<"type", S("string")>>, <<"required", S("yes")>> >>)
ParamBadReq == M(<< <<"type", S("string")>>, <<"description", S("d")>>,
                    <<"required", S("maybe")>> >>)
OutputOk == M(<< <<"type", S("string")>>, <<"description", S("d")>> >>)

ToolOk == M(<< <<"name", S("search")>>, <<"description", S("d")>>,
               <<"parameters", M(<< <<"query", ParamOk>> >>)>> >>)
ToolOut == M(<< <<"name", S("search")>>, <<"description", S("d")>>,
                <<"parameters", M(<< <<"x", ParamOk>>, <<"y", ParamReq>> >>)>>,
                <<"output", M(<< <<"result", OutputOk>> >>)>> >>)
ToolNumType == M(<< <<"name", S("search")>>, <<"description", S("d")>>,
                    <<"parameters", M(<< <<"x", ParamNumType>> >>)>> >>)
\* the parameters are written y before x
ToolTwoBad == M(<< <<"name", S("search")>>,
                   <<"parameters", M(<< <<"y", ParamNoDesc>>,
                                        <<"x", ParamBadReq>> >>)>>,
                   <<"output", M(<< <<"result", S("text")>> >>)>> >>)

ActionOk == M(<< <<"condition", S("c")>>, <<"next_step", S("start")>> >>)
ActionEnd == M(<< <<"condition", S("c")>> >>)
ActionBad == M(<< <<"next_step", I(3)>> >>)

StepStart == M(<< <<"id", S("start")>>, <<"prompt", S("p")>>,
                  <<"next_step", S("end")>> >>)
StepTool == M(<< <<"id", S("call")>>, <<"tool_call", ToolOut>>,
                 <<"response", S("r")>> >>)
StepBranch == M(<< <<"id", S("branch")>>,
                   <<"actions", L(<<ActionOk, ActionEnd>>)>> >>)
StepNoId == M(<< <<"prompt", S("p")>> >>)
StepNumType == M(<< <<"id", S("call")>>, <<"tool_call", ToolNumType>> >>)
StepTwoBad == M(<< <<"id", Null>>, <<"tool_call", ToolTwoBad>>,
                   <<"actions", L(<<ActionOk, ActionBad>>)>> >>)
StepScalar == S("oops")
\* a step whose id is the empty text
StepEmptyId == M(<< <<"id", S("")>>, <<"prompt", S("")>> >>)

FlowSteps == {StepStart, StepTool, StepBranch, StepNoId, StepNumType,
              StepTwoBad, StepScalar, StepEmptyId}

\* values of the `flow` section
FlowSections ==
  {L(q) : q \in SeqsUpTo(FlowSteps, MaxSteps)}
  \cup {Null, S("text"), StepStart}

AgentsOk ==
  M(<< <<"greeter", M(<< <<"instructions", S("Be nice.")>>,
                         <<"temperature", F(5)>> >>)>>,
       <<"helper", M(<< <<"instructions", S("Help.")>> >>)>> >>)
\* the agents are written helper before greeter
AgentsHot ==
  M(<< <<"helper", M(<< <<"temperature", I(1)>> >>)>>,
       <<"greeter", M(<< <<"instructions", S("Be nice.")>>,
                         <<"temperature", F(25)>> >>)>> >>)

WStepOk == M(<< <<"name", S("welcome")>>, <<"agent", S("greeter")>>,
                <<"ask", S("Say hi to {name}")>> >>)
WStepNoAsk == M(<< <<"name", S("welcome")>>, <<"agent", I(7)>> >>)
WStepEmptyAsk == M(<< <<"name", S("welcome")>>, <<"agent", S("greeter")>>,
                      <<"ask", S("")>> >>)
\* an agent whose instructions are the empty text
AgentsBlank ==
  M(<< <<"greeter", M(<< <<"instructions", S("")>> >>)>> >>)

WorkflowSteps == {WStepOk, WStepNoAsk, WStepEmptyAsk}

\* values of the `workflow` section
WorkflowSections ==
  {M(<< <<"name", S("demo")>>, <<"agents", a>>, <<"steps", L(q)>> >>) :
     a \in {AgentsOk, AgentsHot}, q \in SeqsUpTo(WorkflowSteps, MaxSteps)}
  \cup {M(<< <<"name", I(1)>>, <<"description", Null>>,
             <<"agents", S("none")>> >>),
        M(<< <<"name", S("demo")>>, <<"description", S("d")>>,
             <<"agents", AgentsOk>>, <<"steps", L(<<WStepOk>>)>>,
             <<"extra", I(1)>> >>),
        M(<< <<"name", S("")>>, <<"agents", AgentsOk>>,
             <<"steps", L(<<WStepOk>>)>> >>),
        M(<< <<"name", S("demo")>>, <<"agents", AgentsBlank>>,
             <<"steps", L(<<>>)>> >>)}
  \cup {Null, S("text"), L(<<WStepOk>>)}

Sections(ld) == IF ld = "workflow" THEN WorkflowSections ELSE FlowSections

\* the documents yaml.safe_load can yield for a well-formed file
Documents(ld) ==
  {Null, S("text"), I(3), L(<<S("a")>>), M(<< <<"other_key", I(1)>> >>)}
  \cup {M(<< <<SectionKey(ld), sec>> >>) : sec \in Sections(ld)}
  \cup {M(<< <<"other_key", I(1)>>, <<SectionKey(ld), StepStart>> >>)}

\* what the file holds: bytes that are not UTF-8, text that is not YAML,
\* or a YAML document
Contents(ld) ==
  {[kind |-> "undecodable", tree |-> Null],
   [kind |-> "syntax_error", tree |-> Null]}
  \cup {[kind |-> "document", tree |-> d] : d \in Documents(ld)}

Loaders == {"workflow", "flow"}
Paths == {"flow.yaml", "nonexistent_flow.yaml"}

\* what the path names: nothing, a directory, a regular file, a regular
\* file without read permission, a regular file that is removed between
\* the checks and the open, a path below a directory without search
\* permission, a path whose name is too long
FsKinds == {"missing", "directory", "regular", "unreadable", "vanishing",
            "unsearchable", "name_too_long"}

\* os.stat(path): the file mode, or the errno of the OSError
Stat(kind) ==
  CASE kind = "missing" -> [errno |-> "ENOENT", mode |-> ""]
    [] kind = "unsearchable" -> [errno |-> "EACCES", mode |-> ""]
    [] kind = "name_too_long" -> [errno |-> "ENAMETOOLONG", mode |-> ""]
    [] kind = "directory" -> [errno |-> "", mode |-> "dir"]
    [] OTHER -> [errno |-> "", mode |-> "reg"]

\* the errnos Path.exists / Path.is_file turn into False
IgnoredErrnos == {"ENOENT", "ENOTDIR", "EBADF", "ELOOP"}

ErrnoClass(errno) ==
  CASE errno = "EACCES" -> "PermissionError"
    [] errno = "ENOENT" -> "FileNotFoundError"
    [] errno = "EISDIR" -> "IsADirectoryError"
    [] OTHER -> "OSError"

\* Path.exists(): TRUE, FALSE, or the errno of the OSError it lets through
Exists(kind) ==
  LET st == Stat(kind)
  IN IF st.errno = "" THEN [value |-> TRUE, errno |-> ""]
     ELSE IF st.errno \in IgnoredErrnos THEN [value |-> FALSE, errno |-> ""]
     ELSE [value |-> FALSE, errno |-> st.errno]

\* mutant: the regular-file check is left out
IsFile_m(kind) == TRUE

\* Path.is_file(), called on a path that exists
IsFile(kind) == Stat(kind).mode = "reg"

\* open(path, 'r'): the errno of the OSError, or "" when the file opens
OpenErrno(kind) ==
  CASE kind \in {"missing", "vanishing"} -> "ENOENT"
    [] kind \in {"unreadable", "unsearchable"} -> "EACCES"
    [] kind = "directory" -> "EISDIR"
    [] kind = "name_too_long" -> "ENAMETOOLONG"
    [] OTHER -> ""

\* str(e) of the OSError that os.stat / open raise for the path p
StrError(errno, p) ==
  (CASE errno = "ENOENT" ->
          <<"[Errno 2]", "No", "such", "file", "or", "directory">>
     [] errno = "EACCES" -> <<"[Errno 13]", "Permission", "denied">>
     [] errno = "EISDIR" -> <<"[Errno 21]", "Is", "a", "directory">>
     [] OTHER -> <<"[Errno 36]", "File", "name", "too", "long">>)
  \o <<":", "'", p, "'">>

\* str(e) of the UnicodeDecodeError for a file that starts with byte 0xff
MsgUndecodable ==
  <<"'utf-8'", "codec", "can't", "decode", "byte", "0xff", "in", "position",
    "0", ":", "invalid", "start", "byte">>

\* str(e) of the ScannerError for the text `a: b: c` read from the file p:
\* the problem, then the mark of the place
MsgScanner(p) ==
  <<"mapping", "values", "are", "not", "allowed", "here", "\n",
    "  in \"", p, "\"", ",", "line", "1", ",", "column", "5">>

\* str(e) of the TypeError of Config(**v) for a v that is no mapping
MsgNotKwargs(cls, v) ==
  <<cls, "argument", "after", "**", "must", "be", "a", "mapping", ",",
    "not", TypeName(v)>>

NoExc == [cls |-> "none", diag |-> <<>>]
NoResult == [kind |-> "none", cls |-> "", msg |-> <<>>, val |-> Null]
Raise(cls, msg) == [kind |-> "raise", cls |-> cls, msg |-> msg, val |-> Null]
Return(v) == [kind |-> "return", cls |-> "", msg |-> <<>>, val |-> v]

Init ==
  /\ loader \in Loaders
  /\ filepath \in Paths
  /\ fs \in FsKinds
  /\ content \in Contents(loader)
  /\ fs # "regular" => content = [kind |-> "document", tree |-> Null]
  /\ pc = "exists"
  /\ fileOpen = FALSE
  /\ exc = NoExc
  /\ yaml_data = Null
  /\ section_data = Null
  /\ result = NoResult
  /\ trace = <<>>

\* --------------------------------------------------------- the load call
Finish(r) ==
  /\ result' = r
  /\ pc' = "done"

\* if not filepath.exists(): raise ...FileError("... not found")
CheckExists ==
  /\ pc = "exists"
  /\ trace' = Append(trace, "exists")
  /\ LET ex == Exists(fs)
     IN IF ex.errno # ""
        THEN Finish(Raise(ErrnoClass(ex.errno),
                          StrError(ex.errno, filepath)))
        ELSE IF ~ex.value
        THEN Finish(Raise(FileError(loader), MsgNotFound(loader, filepath)))
        ELSE /\ pc' = "is_file"
             /\ UNCHANGED result
  /\ UNCHANGED <<loader, filepath, fs, content, fileOpen, exc, yaml_data,
                 section_data>>

\* if not filepath.is_file(): raise ...FileError("Path is not a file")
CheckIsFile ==
  /\ pc = "is_file"
  /\ trace' = Append(trace, "is_file")
  /\ IF ~IsFile(fs)
     THEN Finish(Raise(FileError(loader), MsgNotAFile(loader, filepath)))
     ELSE /\ pc' = "open"
          /\ UNCHANGED result
  /\ UNCHANGED <<loader, filepath, fs, content, fileOpen, exc, yaml_data,
                 section_data>>

\* with open(filepath, 'r', encoding='utf-8') as file:
OpenFile ==
  /\ pc = "open"
  /\ trace' = Append(trace, "open")
  /\ LET errno == OpenErrno(fs)
     IN IF errno # ""
        THEN /\ exc' = [cls |-> ErrnoClass(errno), diag |-> StrError(errno, filepath)]
             /\ pc' = "except"
             /\ UNCHANGED fileOpen
        ELSE /\ fileOpen' = TRUE
             /\ pc' = "safe_load"
             /\ UNCHANGED exc
  /\ UNCHANGED <<loader, filepath, fs, content, yaml_data, section_data,
                 result>>

\* yaml_data = yaml.safe_load(file)
SafeLoad ==
  /\ pc = "safe_load"
  /\ trace' = Append(trace, "safe_load")
  /\ CASE content.kind = "undecodable" ->
            /\ exc' = [cls |-> "UnicodeDecodeError",
                       diag |-> MsgUndecodable]
            /\ UNCHANGED yaml_data
       [] content.kind = "syntax_error" ->
            /\ exc' = [cls |-> "ScannerError",
                       diag |-> MsgScanner(filepath)]
            /\ UNCHANGED yaml_data
       [] OTHER ->
            /\ yaml_data' = content.tree
            /\ UNCHANGED exc
  /\ pc' = "with_exit"
  /\ UNCHANGED <<loader, filepath, fs, content, fileOpen, section_data,
                 result>>

\* mutant: open / load / close without a with block, so that an
\* exception skips the close
FileAfterWith_m(open, e) == IF e.cls = "none" THEN FALSE ELSE open

\* whether the file is open once the with block is left: it is closed
\* whether the block ends normally or by the exception e
FileAfterWith(open, e) == FALSE

\* leaving the with block closes the file, on return and on exception
WithExit ==
  /\ pc = "with_exit"
  /\ trace' = Append(trace, "close")
  /\ fileOpen' = FileAfterWith(fileOpen, exc)
  /\ pc' = IF exc = NoExc THEN "check_empty" ELSE "except"
  /\ UNCHANGED <<loader, filepath, fs, content, exc, yaml_data, section_data,
                 result>>

\* mutant: the catch-all clause placed before the YAMLError clause
ReadErrorOutcome_m(ld, p, e) ==
  IF IsSubclass(e.cls, "FileNotFoundError")
  THEN Raise(FileError(ld), MsgNotFound(ld, p))
  ELSE IF IsSubclass(e.cls, "PermissionError")
  THEN Raise(FileError(ld), MsgPermission(ld, p))
  ELSE Raise(FileError(ld), MsgReadError(ld, p, e.diag))

\* the except clauses of the read, tried in order
ReadErrorOutcome(ld, p, e) ==
  IF IsSubclass(e.cls, "FileNotFoundError")
  THEN Raise(FileError(ld), MsgNotFound(ld, p))
  ELSE IF IsSubclass(e.cls, "PermissionError")
  THEN Raise(FileError(ld), MsgPermission(ld, p))
  ELSE IF IsSubclass(e.cls, "YAMLError")
  THEN Raise(ValidationErrorOf(ld), MsgInvalidYaml(ld, p, e.diag))
  ELSE Raise(FileError(ld), MsgReadError(ld, p, e.diag))

HandleReadError ==
  /\ pc = "except"
  /\ trace' = Append(trace, "except")
  /\ Finish(ReadErrorOutcome(loader, filepath, exc))
  /\ exc' = NoExc
  /\ UNCHANGED <<loader, filepath, fs, content, fileOpen, yaml_data,
                 section_data>>

\* if yaml_data is None: raise ...ValidationError("... is empty")
CheckEmpty ==
  /\ pc = "check_empty"
  /\ trace' = Append(trace, "check_empty")
  /\ IF yaml_data.t = "null"
     THEN Finish(Raise(ValidationErrorOf(loader), MsgEmpty(loader, filepath)))
     ELSE /\ pc' = "check_mapping"
          /\ UNCHANGED result
  /\ UNCHANGED <<loader, filepath, fs, content, fileOpen, exc, yaml_data,
                 section_data>>

\* if not isinstance(yaml_data, dict): raise ...ValidationError
CheckMapping ==
  /\ pc = "check_mapping"
  /\ trace' = Append(trace, "check_mapping")
  /\ IF yaml_data.t # "map"
     THEN Finish(Raise(ValidationErrorOf(loader),
                       MsgNotMapping(loader, filepath, yaml_data)))
     ELSE /\ pc' = "extract"
          /\ UNCHANGED result
  /\ UNCHANGED <<loader, filepath, fs, content, fileOpen, exc, yaml_data,
                 section_data>>

\* yaml_data.get('workflow')
SectionOf(ld, data) == Get(data, SectionKey(ld))

\* mutant: the None check is left out
SectionMissing_none(ld, data) == FALSE

\* mutant: the check asks whether the key is in the mapping
SectionMissing_key(ld, data) == SectionKey(ld) \notin DOMAIN data.m

\* if workflow_data is None
SectionMissing(ld, data) == SectionOf(ld, data).t = "null"

\* workflow_data = yaml_data.get('workflow'); None raises
ExtractSection ==
  /\ pc = "extract"
  /\ trace' = Append(trace, "extract")
  /\ section_data' = SectionOf(loader, yaml_data)
  /\ IF SectionMissing(loader, yaml_data)
     THEN Finish(Raise(ValidationErrorOf(loader),
                       MsgNoSection(loader, filepath)))
     ELSE /\ pc' = "validate"
          /\ UNCHANGED result
  /\ UNCHANGED <<loader, filepath, fs, content, fileOpen, exc, yaml_data>>

\* what constructing a Config does: it raises, or yields the instance
Constructed(r) ==
  IF r.ok THEN [raised |-> "none", diag |-> <<>>, errs |-> <<>>, val |-> r.val]
  ELSE [raised |-> "ValidationError", diag |-> <<>>, errs |-> r.errs,
        val |-> Null]

\* WorkflowConfig(**workflow_data): a TypeError unless the section is a
\* mapping, else the validation of its entries as the fields
ConstructWorkflowConfig(data) ==
  IF data.t # "map"
  THEN [raised |-> "TypeError",
        diag |-> MsgNotKwargs("cetra.models.WorkflowConfig()", data),
        errs |-> <<>>,
        val |-> Null]
  ELSE Constructed(ValidateWorkflowConfig(data.m))

\* FlowConfig(flow=flow_data)
ConstructFlowConfig(data) == Constructed(ValidateFlowConfig([flow |-> data]))

Construct(ld, data) ==
  IF ld = "workflow" THEN ConstructWorkflowConfig(data)
  ELSE ConstructFlowConfig(data)

\* the try block around the construction c, with its two except clauses
TryConstruct(ld, p, c) ==
  IF c.raised = "none" THEN Return(c.val)
  ELSE IF IsSubclass(c.raised, "ValidationError")
  THEN Raise(ValidationErrorOf(ld), MsgValidationFailed(ld, p, c.errs))
  ELSE Raise(ValidationErrorOf(ld), MsgValidateError(ld, p, c.diag))

ValidateOutcome(ld, p, data) == TryConstruct(ld, p, Construct(ld, data))

Validate ==
  /\ pc = "validate"
  /\ trace' = Append(trace, "validate")
  /\ Finish(ValidateOutcome(loader, filepath, section_data))
  /\ UNCHANGED <<loader, filepath, fs, content, fileOpen, exc, yaml_data,
                 section_data>>

Next ==
  \/ CheckExists
  \/ CheckIsFile
  \/ OpenFile
  \/ SafeLoad
  \/ WithExit
  \/ HandleReadError
  \/ CheckEmpty
  \/ CheckMapping
  \/ ExtractSection
  \/ Validate

Spec == Init /\ [][Next]_vars

\* ============================================================== properties
Done == pc = "done"
Raised == Done /\ result.kind = "raise"
Returned == Done /\ result.kind = "return"
Ran(stage) == \E j \in 1..Len(trace) : trace[j] = stage
LastStage == trace[Len(trace)]

\* the stages of a load in program order
StageOrder == <<"exists", "is_file", "open", "safe_load", "close", "except",
                "check_empty", "check_mapping", "extract", "validate">>
StageRank(stage) == CHOOSE j \in 1..Len(StageOrder) : StageOrder[j] = stage

\* the stages of a load that returns
AllStages == <<"exists", "is_file", "open", "safe_load", "close",
               "check_empty", "check_mapping", "extract", "validate">>

\* the path does not name an existing regular file
FailsResolution == Stat(fs).errno # "" \/ Stat(fs).mode # "reg"

\* ---- the constraints of the entities, stated on the constructed values
IsStr(v) == v.t = "str"
IsNonEmptyStr(v) == v.t = "str" /\ v.s # ""
IsOptStr(v) == v.t \in {"str", "null"}
IsToolParameter(x) ==
  /\ DOMAIN x = {"t", "type", "description", "required"}
  /\ x.t = "ToolParameter" /\ IsStr(x.type) /\ IsStr(x.description)
  /\ x.required.t = "bool"
IsToolOutput(x) ==
  /\ DOMAIN x = {"t", "type", "description"}
  /\ x.t = "ToolOutput" /\ IsStr(x.type) /\ IsStr(x.description)
IsToolCall(x) ==
  /\ DOMAIN x = {"t", "name", "description", "parameters", "output"}
  /\ x.t = "ToolCall" /\ IsStr(x.name) /\ IsStr(x.description)
  /\ x.parameters.t = "dict"
  /\ \A k \in DOMAIN x.parameters.m : IsToolParameter(x.parameters.m[k])
  /\ x.output.t \in {"dict", "null"}
  /\ x.output.t = "dict" =>
       \A k \in DOMAIN x.output.m : IsToolOutput(x.output.m[k])
IsFlowAction(x) ==
  /\ DOMAIN x = {"t", "condition", "next_step"}
  /\ x.t = "FlowAction" /\ IsStr(x.condition) /\ IsOptStr(x.next_step)
IsFlowStep(x) ==
  /\ DOMAIN x = {"t", "id", "prompt", "tool_call", "response", "actions",
                 "next_step"}
  /\ x.t = "FlowStep" /\ IsStr(x.id) /\ IsOptStr(x.prompt)
  /\ IsOptStr(x.response) /\ IsOptStr(x.next_step)
  /\ x.tool_call.t # "null" => IsToolCall(x.tool_call)
  /\ x.actions.t \in {"list", "null"}
  /\ x.actions.t = "list" =>
       \A j \in 1..Len(x.actions.items) : IsFlowAction(x.actions.items[j])
IsFlowConfig(x) ==
  /\ DOMAIN x = {"t", "flow"}
  /\ x.t = "FlowConfig" /\ x.flow.t = "list"
  /\ \A j \in 1..Len(x.flow.items) : IsFlowStep(x.flow.items[j])
IsAgentConfig(x) ==
  /\ DOMAIN x = {"t", "instructions", "temperature"}
  /\ x.t = "AgentConfig" /\ IsNonEmptyStr(x.instructions)
  /\ x.temperature.t = "float"
  /\ x.temperature.x >= 0 /\ x.temperature.x <= 20
IsWorkflowStep(x) ==
  /\ DOMAIN x = {"t", "name", "agent", "ask"}
  /\ x.t = "WorkflowStep" /\ IsNonEmptyStr(x.name)
  /\ IsNonEmptyStr(x.agent) /\ IsNonEmptyStr(x.ask)
IsWorkflowConfig(x) ==
  /\ DOMAIN x = {"t", "name", "description", "agents", "steps"}
  /\ x.t = "WorkflowConfig" /\ IsNonEmptyStr(x.name)
  /\ IsOptStr(x.description)
  /\ x.agents.t = "dict"
  /\ \A k \in DOMAIN x.agents.m : IsAgentConfig(x.agents.m[k])
  /\ x.steps.t = "list"
  /\ \A j \in 1..Len(x.steps.items) : IsWorkflowStep(x.steps.items[j])
IsConfig(ld, x) == IF ld = "workflow" THEN IsWorkflowConfig(x)
                   ELSE IsFlowConfig(x)

\* ---- the texts and the sequence that section 3 of the specification
\* calls non-empty, stated on a constructed FlowConfig
ParameterHasText(x) == x.type.s # "" /\ x.description.s # ""
ToolCallHasText(x) ==
  /\ x.name.s # ""
  /\ \A k \in DOMAIN x.parameters.m : ParameterHasText(x.parameters.m[k])
  /\ x.output.t = "dict" =>
       \A k \in DOMAIN x.output.m : ParameterHasText(x.output.m[k])
FlowStepHasText(x) ==
  /\ x.id.s # ""
  /\ x.tool_call.t # "null" => ToolCallHasText(x.tool_call)
  /\ x.actions.t = "list" =>
       \A j \in 1..Len(x.actions.items) : x.actions.items[j].condition.s # ""
FlowConfigNonEmpty(x) ==
  /\ x.flow.items # <<>>
  /\ \A j \in 1..Len(x.flow.items) : FlowStepHasText(x.flow.items[j])

\* ---- the constraints read off the parsed section itself. With strict
\* they are those of section 3 of the specification: text is non-empty, a
\* boolean is written as a boolean, the flow has a step. Without strict
\* they are those the entity classes declare: text may be empty, a
\* boolean may be written as 0, 1 or a word, the flow may have no step.
RawHas(v, k) == k \in DOMAIN v.m
RawText(v, k, strict) ==
  /\ RawHas(v, k)
  /\ v.m[k].t = "str"
  /\ strict => v.m[k].s # ""
RawOptText(v, k) == RawHas(v, k) => v.m[k].t \in {"str", "null"}
RawBool(v, strict) ==
  \/ v.t = "bool"
  \/ ~strict /\ v.t = "int" /\ v.i \in {0, 1}
  \/ ~strict /\ v.t = "float" /\ v.x \in {0, 10}
  \/ ~strict /\ v.t = "str" /\ LowerWord(v.s) \in TrueWords \cup FalseWords
RawToolParameter(v, strict) ==
  /\ v.t = "map"
  /\ RawText(v, "type", strict)
  /\ RawText(v, "description", strict)
  /\ RawHas(v, "required") => RawBool(v.m["required"], strict)
RawToolOutput(v, strict) ==
  /\ v.t = "map"
  /\ RawText(v, "type", strict)
  /\ RawText(v, "description", strict)
RawToolCall(v, strict) ==
  /\ v.t = "map"
  /\ RawText(v, "name", strict)
  /\ RawText(v, "description", FALSE)
  /\ RawHas(v, "parameters")
  /\ v.m["parameters"].t = "map"
  /\ \A k \in DOMAIN v.m["parameters"].m :
       RawToolParameter(v.m["parameters"].m[k], strict)
  /\ (RawHas(v, "output") /\ v.m["output"].t # "null") =>
       /\ v.m["output"].t = "map"
       /\ \A k \in DOMAIN v.m["output"].m :
            RawToolOutput(v.m["output"].m[k], strict)
RawFlowAction(v, strict) ==
  /\ v.t = "map"
  /\ RawText(v, "condition", strict)
  /\ RawOptText(v, "next_step")
RawFlowStep(v, strict) ==
  /\ v.t = "map"
  /\ RawText(v, "id", strict)
  /\ RawOptText(v, "prompt")
  /\ RawOptText(v, "response")
  /\ RawOptText(v, "next_step")
  /\ (RawHas(v, "tool_call") /\ v.m["tool_call"].t # "null") =>
       RawToolCall(v.m["tool_call"], strict)
  /\ (RawHas(v, "actions") /\ v.m["actions"].t # "null") =>
       /\ v.m["actions"].t = "seq"
       /\ \A j \in 1..Len(v.m["actions"].items) :
            RawFlowAction(v.m["actions"].items[j], strict)
RawFlow(sec, strict) ==
  /\ sec.t = "seq"
  /\ strict => sec.items # <<>>
  /\ \A j \in 1..Len(sec.items) : RawFlowStep(sec.items[j], strict)
RawTemperature(v) ==
  \/ v.t = "int" /\ v.i >= 0 /\ v.i <= 2
  \/ v.t = "float" /\ v.x >= 0 /\ v.x <= 20
RawAgent(v) ==
  /\ v.t = "map"
  /\ RawText(v, "instructions", TRUE)
  /\ RawHas(v, "temperature") => RawTemperature(v.m["temperature"])
RawWorkflowStep(v) ==
  /\ v.t = "map"
  /\ RawText(v, "name", TRUE)
  /\ RawText(v, "agent", TRUE)
  /\ RawText(v, "ask", TRUE)
RawWorkflow(sec) ==
  /\ sec.t = "map"
  /\ RawText(sec, "name", TRUE)
  /\ RawOptText(sec, "description")
  /\ RawHas(sec, "agents")
  /\ sec.m["agents"].t = "map"
  /\ \A k \in DOMAIN sec.m["agents"].m : RawAgent(sec.m["agents"].m[k])
  /\ RawHas(sec, "steps")
  /\ sec.m["steps"].t = "seq"
  /\ \A j \in 1..Len(sec.m["steps"].items) :
       RawWorkflowStep(sec.m["steps"].items[j])
Conforms(ld, sec, strict) ==
  IF ld = "flow" THEN RawFlow(sec, strict) ELSE RawWorkflow(sec)

\* step j of a flow section omits id altogether
RawStepOmitsId(sec, j) ==
  sec.items[j].t = "map" /\ "id" \notin DOMAIN sec.items[j].m
\* step j of a flow section has a numeric tool_call.parameters.x.type
RawStepNumericXType(sec, j) ==
  /\ sec.items[j].t = "map"
  /\ "tool_call" \in DOMAIN sec.items[j].m
  /\ LET tc == sec.items[j].m["tool_call"]
     IN /\ tc.t = "map" /\ "parameters" \in DOMAIN tc.m
        /\ tc.m["parameters"].t = "map"
        /\ "x" \in DOMAIN tc.m["parameters"].m
        /\ tc.m["parameters"].m["x"].t = "map"
        /\ "type" \in DOMAIN tc.m["parameters"].m["x"].m
        /\ tc.m["parameters"].m["x"].m["type"].t = "int"

\* C1: a load that does not return a Config raises the loader's file error
\* or its validation error, both subclasses of the loader's root error; no
\* other exception leaves load.
C1_OnlyParserErrors ==
  Done =>
    /\ result.kind \in {"return", "raise"}
    /\ result.kind = "raise" =>
         /\ result.cls \in {FileError(loader), ValidationErrorOf(loader)}
         /\ IsSubclass(result.cls, ParserError(loader))

\* the class load raises for a file that is not well-formed YAML
SyntaxErrorClass(ld, p) ==
  ReadErrorOutcome(ld, p, [cls |-> "ScannerError", diag |-> <<>>]).cls

\* C2 (as stated): structural and semantic failures are distinct kinds, so
\* a failure of schema validation is not caught by a handler for the class
\* raised for a YAML syntax error.
C2_DistinctKinds ==
  (Raised /\ LastStage = "validate") =>
    ~IsSubclass(result.cls, SyntaxErrorClass(loader, filepath))

\* C2 (amended): a syntax error, an empty document, a non-mapping top
\* level, a missing section and a constraint violation all raise the
\* loader's one validation error, which is not its file error; the failing
\* stage is told by the opening words of the message.
C2_StageByMessage ==
  (Raised /\ fs = "regular") =>
    /\ content.kind = "syntax_error" =>
         /\ result.cls = ValidationErrorOf(loader)
         /\ StartsWith(result.msg, <<"Invalid", "YAML", "format">>)
    /\ LastStage = "check_empty" =>
         /\ result.cls = ValidationErrorOf(loader)
         /\ Contains(result.msg, <<"is", "empty">>)
    /\ LastStage = "check_mapping" =>
         /\ result.cls = ValidationErrorOf(loader)
         /\ Contains(result.msg, <<"got", TypeName(yaml_data)>>)
    /\ LastStage = "extract" =>
         /\ result.cls = ValidationErrorOf(loader)
         /\ Contains(result.msg, <<"'", SectionKey(loader), "'", "section">>)
    /\ LastStage = "validate" =>
         /\ result.cls = ValidationErrorOf(loader)
         /\ \/ StartsWith(result.msg, <<Noun(loader), "validation", "failed">>)
            \/ StartsWith(result.msg, <<"Error", "validating">>)
    /\ LastStage # "validate" =>
         /\ ~StartsWith(result.msg, <<Noun(loader), "validation", "failed">>)
         /\ ~StartsWith(result.msg, <<"Error", "validating">>)
    /\ result.cls = ValidationErrorOf(loader) =>
         /\ result.cls # FileError(loader)
         /\ ~IsSubclass(result.cls, FileError(loader))
         /\ IsSubclass(result.cls, ParserError(loader))

C2_Witness ==
  /\ Raised /\ LastStage = "validate"
  /\ result.cls = SyntaxErrorClass(loader, filepath)
  /\ StartsWith(result.msg, <<Noun(loader), "validation", "failed">>)

\* C3: a missing path raises the file error, a subclass of the root error,
\* with a message that contains "not found" in any case and names the
\* path; a directory raises the file error with another message.
C3_MissingAndDirectory ==
  Done =>
    /\ fs = "missing" =>
         /\ result.kind = "raise"
         /\ result.cls = FileError(loader)
         /\ IsSubclass(result.cls, ParserError(loader))
         /\ Contains(Lower(result.msg), <<"not", "found">>)
         /\ Contains(result.msg, <<filepath>>)
    /\ fs = "directory" =>
         /\ result.kind = "raise"
         /\ result.cls = FileError(loader)
         /\ IsSubclass(result.cls, ParserError(loader))
         /\ ~Contains(Lower(result.msg), <<"not", "found">>)
         /\ Contains(Lower(result.msg), <<"not", "a", "file">>)
         /\ Contains(result.msg, <<filepath>>)

C3_Witness ==
  /\ Raised /\ fs = "missing" /\ filepath = "nonexistent_flow.yaml"
  /\ result.cls = FileError(loader)

\* C4: the stages run in program order, and for a path that fails
\* resolution nothing is opened, parsed or validated and no validation
\* error is raised.
C4_ResolutionFirst ==
  /\ \A i \in 1..Len(trace) : \A j \in 1..Len(trace) :
       i < j => StageRank(trace[i]) < StageRank(trace[j])
  /\ Raised => pc = "done" /\ LastStage # "close"
  /\ FailsResolution =>
       /\ ~Ran("open") /\ ~Ran("safe_load") /\ ~Ran("validate")
       /\ ~fileOpen
       /\ yaml_data = Null
       /\ Done => /\ result.kind = "raise"
                  /\ result.cls # ValidationErrorOf(loader)

C4_Witness ==
  Raised /\ fs = "directory" /\ trace = <<"exists", "is_file">>

\* C5: a mapping without the section key raises the validation error with
\* a message naming the key, and nothing is constructed.
C5_MissingSection ==
  (Done /\ Ran("extract") /\ SectionKey(loader) \notin DOMAIN yaml_data.m) =>
    /\ result.kind = "raise"
    /\ result.cls = ValidationErrorOf(loader)
    /\ Contains(result.msg, <<"'", SectionKey(loader), "'", "section">>)
    /\ Contains(result.msg, <<filepath>>)
    /\ ~Ran("validate")
    /\ result.val = Null

C5_Witness ==
  Raised /\ yaml_data = M(<< <<"other_key", I(1)>> >>) /\ LastStage = "extract"

\* C6 (as stated): load returns only after every stage succeeded, what
\* it returns satisfies every constraint of the data model of section 3
\* (non-empty text and a non-empty flow included), and a section that
\* violates any of them (a boolean written as text included) makes load
\* raise.
C6_EveryConstraint ==
  Done =>
    /\ result.kind = "return" =>
         /\ trace = AllStages
         /\ IsConfig(loader, result.val)
         /\ loader = "flow" => FlowConfigNonEmpty(result.val)
    /\ (Ran("validate") /\ ~Conforms(loader, section_data, TRUE)) =>
         result.kind = "raise"

\* C6 (amended): load returns only after every stage succeeded, and it
\* returns exactly when the section satisfies the constraints the entity
\* classes declare, with a value that satisfies them; a section that
\* violates one makes load raise the validation error. Text that is
\* empty, a flow without steps and a boolean written as 0, 1 or a word
\* violate nothing: the load returns, the boolean converted.
C6_AllOrNothing ==
  Done =>
    /\ result.kind = "return" =>
         /\ trace = AllStages
         /\ IsConfig(loader, result.val)
         /\ Conforms(loader, section_data, FALSE)
    /\ (Ran("validate") /\ ~Conforms(loader, section_data, FALSE)) =>
         /\ result.kind = "raise"
         /\ result.cls = ValidationErrorOf(loader)
    /\ (Ran("validate") /\ Conforms(loader, section_data, FALSE)) =>
         result.kind = "return"

C6_Witness ==
  /\ Returned /\ loader = "flow"
  /\ section_data = L(<<StepEmptyId, StepTool>>)
  /\ result.val.flow.items[1].id = S("")
  /\ result.val.flow.items[2].tool_call.parameters.m["y"].required = B(TRUE)

\* C7 (as stated): a FlowConfig returned by a load has at least one step.
C7_NonEmptyFlow ==
  (Returned /\ loader = "flow") => Len(result.val.flow.items) > 0

\* C7 (amended): a FlowConfig returned by a load has as `flow` a sequence
\* of valid steps, one per step of the section, possibly none: the empty
\* sequence is accepted.
C7_FlowIsSequence ==
  (Done /\ loader = "flow" /\ Ran("validate")) =>
    /\ result.kind = "return" =>
         /\ result.val.flow.t = "list"
         /\ section_data.t = "seq"
         /\ Len(result.val.flow.items) = Len(section_data.items)
         /\ \A j \in 1..Len(result.val.flow.items) :
              IsFlowStep(result.val.flow.items[j])
    /\ section_data = L(<<>>) =>
         /\ result.kind = "return"
         /\ result.val.flow.items = <<>>

C7_Witness ==
  /\ Returned /\ loader = "flow" /\ section_data = L(<<>>)
  /\ Len(result.val.flow.items) = 0

\* the number of newlines in a text
CountNewlines(text) == Cardinality({j \in 1..Len(text) : text[j] = "\n"})

\* the line of the message for a violation at a dotted path
ViolationLine(path, reason) == <<"\n", "  - ">> \o path \o <<": ">> \o reason

\* C8: when the section violates constraints, the one validation error
\* raised has a message whose first line names the file and which then
\* lists every violation, one per line, as dotted path and reason.
C8_EveryViolationListed ==
  (Done /\ Ran("validate")
        /\ Construct(loader, section_data).raised = "ValidationError") =>
    LET errs == Construct(loader, section_data).errs
    IN /\ result.kind = "raise"
       /\ result.cls = ValidationErrorOf(loader)
       /\ StartsWith(result.msg, <<Noun(loader), "validation", "failed",
                                   "in", filepath, ":", "\n">>)
       /\ CountNewlines(result.msg) = Len(errs)
       /\ \A j \in 1..Len(errs) :
            Contains(result.msg,
                     ViolationLine(FieldPath(errs[j].loc), errs[j].msg))
       /\ (loader = "flow" /\ section_data.t = "seq") =>
            \A j \in 1..Len(section_data.items) :
              /\ RawStepOmitsId(section_data, j) =>
                   Contains(result.msg,
                            ViolationLine(<<"flow", ".", DigitStr[j], ".",
                                            "id">>, MsgMissing))
              /\ RawStepNumericXType(section_data, j) =>
                   Contains(result.msg,
                            ViolationLine(<<"flow", ".", DigitStr[j], ".",
                                            "tool_call", ".", "parameters",
                                            ".", "x", ".", "type">>,
                                          MsgStringType))

C8_Witness ==
  /\ Raised /\ loader = "flow"
  /\ section_data = L(<<StepNoId, StepNumType>>)
  /\ Contains(result.msg, <<"flow", ".", "0", ".", "id">>)
  /\ Contains(result.msg, <<"flow", ".", "1", ".", "tool_call", ".",
                            "parameters", ".", "x", ".", "type">>)

\* C9: the file is open only while it is read and parsed: it is closed
\* when load returns or raises and while the section is extracted and
\* validated.
C9_FileReleased ==
  /\ fileOpen => pc \in {"safe_load", "with_exit"}
  /\ pc = "safe_load" => fileOpen
  /\ Done => ~fileOpen
  /\ pc \in {"except", "check_empty", "check_mapping", "extract",
             "validate"} => ~fileOpen

C9_Witness ==
  /\ Raised /\ content.kind = "syntax_error"
  /\ Ran("open") /\ Ran("close") /\ ~fileOpen

\* C10: a section key with a null value is treated as an absent key: load
\* raises the same `must contain a section` error and nothing is validated.
C10_NullSectionIsMissing ==
  (Done /\ Ran("extract")
        /\ (SectionKey(loader) \notin DOMAIN yaml_data.m
            \/ yaml_data.m[SectionKey(loader)] = Null)) =>
    /\ result.kind = "raise"
    /\ result.cls = ValidationErrorOf(loader)
    /\ result.msg = <<Noun(loader), "file", "must", "contain", "a", "'",
                      SectionKey(loader), "'", "section", ":", filepath>>
    /\ ~Ran("validate")

C10_Witness ==
  /\ Raised /\ Ran("extract")
  /\ SectionKey(loader) \in DOMAIN yaml_data.m
  /\ yaml_data.m[SectionKey(loader)] = Null

====
